---- MODULE Spec2Model ----
(***************************************************************************)
(* A model of parser.py: ResumeManager.process_file and the script body    *)
(* that runs it and writes the output record.                              *)
(*                                                                         *)
(* Python values are tagged records: Str(s) with s a sequence of text      *)
(* atoms, List(q) with q a sequence of values, Dict(p) with p the          *)
(* insertion-ordered sequence of <<key, value>> pairs of a dict.           *)
(* A JSON-mode completion is a sequence of JSON tokens; a free-text        *)
(* completion is a sequence of text atoms.                                 *)
(***************************************************************************)
EXTENDS Integers, Sequences, FiniteSets, TLC

\* Most lines of an enumeration response.
MaxEnumLines == 2

\* Most objects a schema-guided extraction returns.
MaxEntries == 1

\* Most pages of a PDF and most paragraphs of a Word document.
MaxParts == 2

\* Most text atoms of one page or paragraph.
MaxPartLen == 2

(***************************************************************************)
(* Python values                                                           *)
(***************************************************************************)
Str(s) == [t |-> "str", v |-> s]

List(q) == [t |-> "list", v |-> q]

Dict(p) == [t |-> "dict", v |-> p]

EmptyStr == Str(<<>>)

EmptyList == List(<<>>)

Range(q) == {q[i] : i \in 1..Len(q)}

\* d.keys()
Keys(d) == {d.v[i][1] : i \in 1..Len(d.v)}

\* key in d
HasKey(d, k) == k \in Keys(d)

\* d[k], for a key that is present (an absent key is a KeyError: callers test it)
GetItem(d, k) == LET i == CHOOSE j \in 1..Len(d.v) : d.v[j][1] = k IN d.v[i][2]

\* d[k] = val: replaces the value in place, or appends a new key
SetItem(d, k, val) ==
    IF HasKey(d, k)
    THEN Dict([i \in 1..Len(d.v) |-> IF d.v[i][1] = k THEN <<k, val>> ELSE d.v[i]])
    ELSE Dict(Append(d.v, <<k, val>>))

\* q.append(x)
ListAppend(q, x) == List(Append(q.v, x))

(***************************************************************************)
(* JSON text: tokens, json.dumps and json.loads                            *)
(***************************************************************************)
P(c) == [t |-> "punct", v |-> c]

\* A JSON string literal with escaped content.
StrTok(s) == [t |-> "str", v |-> s]

\* A JSON string literal holding a raw control character (rejected when strict).
CtlTok(s) == [t |-> "ctl", v |-> s]

LBrace == P("{")

RBrace == P("}")

LBrack == P("[")

RBrack == P("]")

Colon == P(":")

Comma == P(",")

\* Text atoms that are control characters.
ControlAtoms == {"\n", "\t"}

\* Text atoms that open an escape or close a literal inside a JSON string.
QuoteAtoms == {"\"", "\\"}

\* json.dumps: the two-character escape written for an atom, the atom itself
\* when it needs none.
EscapeAtom(a) ==
    CASE a = "\n" -> "\\n"
      [] a = "\t" -> "\\t"
      [] a = "\"" -> "\\\""
      [] a = "\\" -> "\\\\"
      [] OTHER -> a

\* json.loads: the atom an escape denotes.
UnescapeAtom(a) ==
    CASE a = "\\n" -> "\n"
      [] a = "\\t" -> "\t"
      [] a = "\\\"" -> "\""
      [] a = "\\\\" -> "\\"
      [] OTHER -> a

Escape(s) == [i \in 1..Len(s) |-> EscapeAtom(s[i])]

Unescape(s) == [i \in 1..Len(s) |-> UnescapeAtom(s[i])]

\* Variant: the string is written between quotes as it is.
DumpStrRaw(s) == StrTok(s)

\* The literal json.dumps writes for a str: control characters, quotes and
\* backslashes are escaped.
DumpStr(s) == StrTok(Escape(s))


RECURSIVE Dumps(_)
RECURSIVE DumpItems(_, _)
RECURSIVE DumpPairs(_, _)
\* json.dumps(val), as tokens
Dumps(val) ==
    CASE val.t = "str" -> <<DumpStr(val.v)>>
      [] val.t = "list" -> <<LBrack>> \o DumpItems(val.v, 1) \o <<RBrack>>
      [] val.t = "dict" -> <<LBrace>> \o DumpPairs(val.v, 1) \o <<RBrace>>

DumpItems(q, i) ==
    IF i > Len(q) THEN <<>>
    ELSE Dumps(q[i]) \o (IF i < Len(q) THEN <<Comma>> ELSE <<>>) \o DumpItems(q, i + 1)

DumpPairs(p, i) ==
    IF i > Len(p) THEN <<>>
    ELSE <<DumpStr(<<p[i][1]>>), Colon>> \o Dumps(p[i][2])
         \o (IF i < Len(p) THEN <<Comma>> ELSE <<>>) \o DumpPairs(p, i + 1)

\* A parse result: the value read and the index of the next token, or a failure.
Parsed(val, next) == [ok |-> TRUE, val |-> val, next |-> next]

ParseError == [ok |-> FALSE, val |-> EmptyStr, next |-> 0]

\* The scanner's reading of a string literal: a bare quote or backslash is
\* never valid inside it, a raw control character only when not strict.
ParseString(tok, next, strict) ==
    IF \E i \in 1..Len(tok.v) : tok.v[i] \in QuoteAtoms THEN ParseError
    ELSE IF strict /\ (tok.t = "ctl" \/ \E i \in 1..Len(tok.v) : tok.v[i] \in ControlAtoms)
    THEN ParseError
    ELSE Parsed(Str(Unescape(tok.v)), next)

\* The key a string literal token denotes (keys are single-atom strings).
KeyOf(tok) == IF Len(tok.v) = 1 THEN tok.v[1] ELSE "?"

RECURSIVE ParseValue(_, _, _)
RECURSIVE ParseItems(_, _, _, _)
RECURSIVE ParsePairs(_, _, _, _)
\* The JSON decoder's scan of one value starting at token i.
ParseValue(toks, i, strict) ==
    IF i > Len(toks) THEN ParseError
    ELSE CASE toks[i].t \in {"str", "ctl"} -> ParseString(toks[i], i + 1, strict)
           [] toks[i] = LBrack ->
                IF i + 1 <= Len(toks) /\ toks[i + 1] = RBrack
                THEN Parsed(EmptyList, i + 2)
                ELSE ParseItems(toks, i + 1, <<>>, strict)
           [] toks[i] = LBrace ->
                IF i + 1 <= Len(toks) /\ toks[i + 1] = RBrace
                THEN Parsed(Dict(<<>>), i + 2)
                ELSE ParsePairs(toks, i + 1, Dict(<<>>), strict)
           [] OTHER -> ParseError

ParseItems(toks, i, acc, strict) ==
    LET r == ParseValue(toks, i, strict) IN
    IF ~r.ok \/ r.next > Len(toks) THEN ParseError
    ELSE IF toks[r.next] = RBrack THEN Parsed(List(Append(acc, r.val)), r.next + 1)
    ELSE IF toks[r.next] = Comma THEN ParseItems(toks, r.next + 1, Append(acc, r.val), strict)
    ELSE ParseError

ParsePairs(toks, i, acc, strict) ==
    IF i + 1 > Len(toks) \/ toks[i].t \notin {"str", "ctl"} \/ toks[i + 1] # Colon
    THEN ParseError
    ELSE IF toks[i].t = "ctl" /\ strict THEN ParseError
    ELSE LET r == ParseValue(toks, i + 2, strict) IN
         IF ~r.ok \/ r.next > Len(toks) THEN ParseError
         ELSE LET d == SetItem(acc, KeyOf(toks[i]), r.val) IN
              IF toks[r.next] = RBrace THEN Parsed(d, r.next + 1)
              ELSE IF toks[r.next] = Comma THEN ParsePairs(toks, r.next + 1, d, strict)
              ELSE ParseError

\* json.loads(text, strict=strict): the whole text must be one value.
JsonLoads(toks, strict) ==
    LET r == ParseValue(toks, 1, strict) IN
    IF r.ok /\ r.next = Len(toks) + 1 THEN r ELSE ParseError

(***************************************************************************)
(* str methods used by the work-experience fallback                        *)
(***************************************************************************)
Whitespace == {" ", "\t", "\n"}

RECURSIVE SplitFrom(_, _, _, _)
SplitFrom(s, sep, i, cur) ==
    IF i > Len(s) THEN <<cur>>
    ELSE IF s[i] = sep THEN <<cur>> \o SplitFrom(s, sep, i + 1, <<>>)
    ELSE SplitFrom(s, sep, i + 1, Append(cur, s[i]))

\* s.split(sep)
Split(s, sep) == SplitFrom(s, sep, 1, <<>>)

RECURSIVE RStrip(_)
\* s.rstrip()
RStrip(s) ==
    IF Len(s) > 0 /\ s[Len(s)] \in Whitespace THEN RStrip(SubSeq(s, 1, Len(s) - 1)) ELSE s

\* The lower-case form of one text atom.
LowerAtom(a) ==
    CASE a = "Answer" -> "answer"
      [] a = "Acme" -> "acme"
      [] a = "Dev" -> "dev"
      [] OTHER -> a

\* s.lower()
Lower(s) == [i \in 1..Len(s) |-> LowerAtom(s[i])]

\* "answer" in s  (no atom holds part of the word: it occurs only as a whole atom)
ContainsAnswer(s) == \E i \in 1..Len(s) : s[i] = "answer"

(***************************************************************************)
(* Collaborators that live outside parser.py                               *)
(***************************************************************************)
\* utils.output_template: the record every run starts from.
output_template ==
    Dict(<< <<"candidate_name", EmptyStr>>,
            <<"job_title", EmptyStr>>,
            <<"bio", EmptyStr>>,
            <<"contact_info", Dict(<< <<"location", EmptyStr>>,
                                      <<"phone_number", EmptyStr>>,
                                      <<"email_address", EmptyList>>,
                                      <<"personal_urls", EmptyList>> >>)>>,
            <<"skills", EmptyList>>,
            <<"professional_development", EmptyList>>,
            <<"other_info", EmptyList>>,
            <<"education", EmptyList>>,
            <<"work_output", EmptyList>> >>)

EmailAtoms == {"jd@x.org"}

UrlAtoms == {"github.com/jd"}

RECURSIVE SelectAtoms(_, _, _)
SelectAtoms(s, i, S) ==
    IF i > Len(s) THEN <<>>
    ELSE (IF s[i] \in S THEN <<Str(<<s[i]>>)>> ELSE <<>>) \o SelectAtoms(s, i + 1, S)

\* utils.extract_emails(text)
extract_emails(text) == List(SelectAtoms(text, 1, EmailAtoms))

\* utils.extract_github_and_linkedin_urls(text)
extract_github_and_linkedin_urls(text) == List(SelectAtoms(text, 1, UrlAtoms))

\* The resume texts get_resume_content may have returned.
Resumes == { <<"John", " ", "jd@x.org", "\n", "github.com/jd", "\n">>,
             <<"Jane", "\n">> }

(***************************************************************************)
(* The model endpoint: what a call can come back with                      *)
(***************************************************************************)
Completion(text) == [kind |-> "ok", text |-> text]

\* openai.APITimeoutError
Timeout == [kind |-> "APITimeoutError", text |-> <<>>]

\* any other failure of the call (authentication, rate limit, network)
ApiError == [kind |-> "APIError", text |-> <<>>]

Failures == {Timeout, ApiError}

\* All sequences over S of length at most n.
SeqsUpTo(S, n) == UNION {[1..k -> S] : k \in 0..n}

\* The members of the sequence ks that are in the set S, in order.
Restrict(ks, S) == SelectSeq(ks, LAMBDA k : k \in S)

RECURSIVE PairsText(_, _, _)
PairsText(ks, i, valueText) ==
    IF i > Len(ks) THEN <<>>
    ELSE <<StrTok(<<ks[i]>>), Colon>> \o valueText[ks[i]]
         \o (IF i < Len(ks) THEN <<Comma>> ELSE <<>>) \o PairsText(ks, i + 1, valueText)

\* The text of a JSON object with the keys ks, in order.
ObjectText(ks, valueText) == <<LBrace>> \o PairsText(ks, 1, valueText) \o <<RBrace>>

\* A completion cut short: the text without its closing token.
Truncated(text) == SubSeq(text, 1, Len(text) - 1)

BasicKeys == <<"name", "job_title", "bio", "location", "phone">>

BasicValueText ==
    [k \in Range(BasicKeys) |->
        CASE k = "name" -> <<StrTok(<<"John", " ", "Doe">>)>>
          [] k = "job_title" -> <<StrTok(<<"Engineer">>)>>
          [] k = "bio" -> <<StrTok(<<"Builds", " ", "things">>)>>
          [] k = "location" -> <<StrTok(<<"Paris">>)>>
          [] k = "phone" -> <<StrTok(<<"555">>)>>]

\* JSON-mode answers to the basic details prompt: an object with any subset of
\* the expected keys, or a text that is not valid JSON.
\* An answer that carries keys the prompt did not ask for.
UnaskedKeys == <<"email_address", "personal_urls", "location">>

UnaskedValueText ==
    [k \in Range(UnaskedKeys) |->
        CASE k = "email_address" -> <<StrTok(<<"other@y.org">>)>>
          [] k = "personal_urls" -> <<StrTok(<<"y.org/other">>)>>
          [] k = "location" -> <<StrTok(<<"Paris">>)>>]

BasicTexts ==
    {ObjectText(Restrict(BasicKeys, S), BasicValueText) : S \in SUBSET Range(BasicKeys)}
    \cup {Truncated(ObjectText(BasicKeys, BasicValueText))}
    \cup {ObjectText(UnaskedKeys, UnaskedValueText)}

SkillsKeys == <<"skills", "professional_development", "other">>

SkillsValueText ==
    [k \in Range(SkillsKeys) |->
        CASE k = "skills" ->
               <<LBrack, StrTok(<<"Python">>), Comma, StrTok(<<"SQL">>), RBrack>>
          [] k = "professional_development" -> <<LBrack, StrTok(<<"AWS", " ", "cert">>), RBrack>>
          [] k = "other" -> <<StrTok(<<"Chess">>)>>]

\* JSON-mode answers to the skills prompt.
SkillsTexts ==
    {ObjectText(Restrict(SkillsKeys, S), SkillsValueText) : S \in SUBSET Range(SkillsKeys)}
    \cup {Truncated(ObjectText(SkillsKeys, SkillsValueText))}

\* Free-text answers to the fallback skills and education prompts.
FreeTexts == { <<"Python", ",", " ", "SQL">>, <<"MIT", "\n", "\"", "BSc", "\"">> }

\* Lines the model may write when asked to enumerate companies and roles.
LineSamples ==
    { <<>>,
      <<"Answer", ":", " ", "Acme", ",", "Dev">>,
      <<" ", ",", "Dev">>,
      <<"Acme">>,
      <<"Acme", ",", "Dev">>,
      <<"Acme", " ", ",", "Dev", " ", ",", "2020">> }

RECURSIVE Join(_, _, _)
\* The lines ls[i..] joined by sep.
Join(ls, i, sep) ==
    IF i > Len(ls) THEN <<>>
    ELSE ls[i] \o (IF i < Len(ls) THEN <<sep>> ELSE <<>>) \o Join(ls, i + 1, sep)

\* Free-text answers to the companies prompt: up to MaxEnumLines lines.
EnumTexts == {Join(ls, 1, "\n") : ls \in SeqsUpTo(LineSamples, MaxEnumLines)}

\* JSON-mode answers to the work experience prompt for one company: an object
\* one of whose strings holds a raw line break, or that text cut short.
CompanyTexts(company, role) ==
    LET text == ObjectText(<<"company", "role", "responsibilities">>,
                    [k \in {"company", "role", "responsibilities"} |->
                        CASE k = "company" -> <<StrTok(company)>>
                          [] k = "role" -> <<StrTok(role)>>
                          [] OTHER -> <<CtlTok(<<"Build", "\n", "Run">>)>>])
    IN {text, Truncated(text)}

\* pydantic_models_prompts.WorkExperience objects the extraction chain may return.
WorkObjects == { Dict(<< <<"company", Str(<<"Acme">>)>>, <<"role", Str(<<"Dev">>)>> >>) }

\* pydantic_models_prompts.Education objects the extraction chain may return.
EducationObjects == { Dict(<< <<"institution", Str(<<"MIT">>)>>, <<"degree", Str(<<"BSc">>)>> >>) }

\* The chain could not build the schema's objects from the model's answer.
ValidationError == [kind |-> "ValidationError", text |-> <<>>]

\* json.loads(x.json().encode('utf-8'))
PydanticToDict(x) == JsonLoads(Dumps(x), TRUE).val

(***************************************************************************)
(* get_resume_content                                                      *)
(***************************************************************************)
\* A path and an extension are sequences of atoms; the extension starts with
\* its dot.  None and the empty string are both <<>>.
Dot == "."

PdfExt == <<Dot, "pdf">>

DocxExt == <<Dot, "docx">>

DocExt == <<Dot, "doc">>

\* os.path.splitext(file)[1]: from the last dot on, a leading dot not counted.
SplitExt(path) ==
    LET dots == { i \in 2..Len(path) : path[i] = Dot } IN
    IF dots = {} THEN <<>>
    ELSE SubSeq(path, CHOOSE i \in dots : \A j \in dots : j <= i, Len(path))

\* if not extension: extension = os.path.splitext(file)[1]
ExtensionOf(path, extension) == IF extension = <<>> THEN SplitExt(path) ELSE extension

\* What is in the file: a PDF with pages of text, or a Word document with paragraphs.
PdfDocument(pages) == [kind |-> "pdf", parts |-> pages]

DocxDocument(paragraphs) == [kind |-> "docx", parts |-> paragraphs]

RECURSIVE PdfLinesKeepBlank(_)
\* Variant: the `if line:` test is missing, every line is written.
PdfLinesKeepBlank(ls) ==
    IF ls = <<>> THEN <<>>
    ELSE RStrip(Head(ls)) \o <<"\n">> \o PdfLinesKeepBlank(Tail(ls))

RECURSIVE PdfLines(_)
\* for line in text.split('\n'): line = line.rstrip(); if line: content += line; content += '\n'
PdfLines(ls) ==
    IF ls = <<>> THEN <<>>
    ELSE LET line == RStrip(Head(ls)) IN
         (IF line # <<>> THEN line \o <<"\n">> ELSE <<>>) \o PdfLines(Tail(ls))

RECURSIVE PdfContent(_)
\* for page_num in range(len(pdf_reader.pages)): text = page.extract_text()
PdfContent(pages) ==
    IF pages = <<>> THEN <<>>
    ELSE PdfLines(Split(Head(pages), "\n")) \o PdfContent(Tail(pages))

RECURSIVE DocxContent(_)
\* for paragraph in doc.paragraphs: content += paragraph.text + "\n"
DocxContent(paragraphs) ==
    IF paragraphs = <<>> THEN <<>>
    ELSE Head(paragraphs) \o <<"\n">> \o DocxContent(Tail(paragraphs))

\* Variant: a .txt file is opened as a Word document.
ReaderOfText(ext) ==
    CASE ext = PdfExt -> "pdf"
      [] ext \in {DocxExt, DocExt, <<Dot, "txt">>} -> "docx"
      [] OTHER -> ""

\* The reader the branch for `ext` opens the file with, "" for the else branch.
ReaderOf(ext) ==
    CASE ext = PdfExt -> "pdf"
      [] ext \in {DocxExt, DocExt} -> "docx"
      [] OTHER -> ""

\* The text the branch for the document builds.
ContentOf(doc) ==
    IF doc.kind = "pdf" THEN PdfContent(doc.parts) ELSE DocxContent(doc.parts)

\* The call get_resume_content(file, extension) on a file holding `doc`.
Loading(path, extension, doc) == [file |-> path, extension |-> extension, doc |-> doc]

NotLoading == Loading(<<>>, <<>>, DocxDocument(<<>>))

\* The files the script is run on, with the extension a caller of the
\* constructor passes (the script passes none).
JaneDocument == PdfDocument(<< <<"Jane", " ", "\n", " ", "\n">>, <<>> >>)

JohnDocument == DocxDocument(<< <<"John", " ", "jd@x.org">>, <<"github.com/jd">> >>)

Sources ==
    { Loading(<<"cv", Dot, "pdf">>, <<>>, JaneDocument),
      Loading(<<"cv", Dot, "docx">>, <<>>, JohnDocument),
      Loading(<<"cv", Dot, "old", Dot, "doc">>, <<>>, JohnDocument),
      Loading(<<"cv">>, DocxExt, JohnDocument),
      Loading(<<"cv", Dot, "txt">>, <<>>, JohnDocument),
      Loading(<<"cv", Dot, "PDF">>, <<>>, JaneDocument),
      Loading(<<"cv">>, <<>>, JaneDocument),
      Loading(<<Dot, "pdf">>, <<>>, JaneDocument),
      Loading(<<"cv", Dot, "pdf">>, <<Dot, "rtf">>, JaneDocument),
      Loading(<<"cv", Dot, "pdf">>, DocxExt, JaneDocument),
      Loading(<<"cv", Dot, "txt">>, PdfExt, JohnDocument) }

(***************************************************************************)
(* State                                                                   *)
(***************************************************************************)
VARIABLES
    resume,     \* self.resume
    output,     \* self.output
    pc,         \* where the script is
    reply,      \* what the last model call came back with (the methods' local `output`)
    lines,      \* fallback_extract_work_experience: the list the for loop iterates
    idx,        \* fallback_extract_work_experience: position of the loop in lines
    raised,     \* the exception that ended the run, "" while there is none
    attempts,   \* history: the extraction methods called so far and how each ended
    calls,      \* history: the model calls issued so far, in order
    file,       \* what was written to the output file, one entry per json.dump
    stdout,     \* what print wrote
    loading,    \* get_resume_content: its arguments and the file behind them, NotLoading once it returned
    sent        \* the model client: requests sent for the call under way

vars == <<resume, output, pc, reply, lines, idx, raised, attempts, calls, file, stdout,
          loading, sent>>

\* One model call: the method that issued it, the client method used, the
\* prompt, and the company and role formatted into the prompt.
Call(by, fn, json_mode, prompt, company, role) ==
    [by |-> by, fn |-> fn, json_mode |-> json_mode, prompt |-> prompt,
     company |-> company, role |-> role]

QueryModel(by, json_mode, prompt) == Call(by, "query_model", json_mode, prompt, <<>>, <<>>)

ExtractPydantic(by, target) == Call(by, "extract_pydantic", FALSE, target, <<>>, <<>>)

\* One call of an extraction method: "ok" when it returned, "running" while it
\* has not ended, else the exception that left it.
Attempt(step, result) == [step |-> step, result |-> result]

\* The last attempt ends with `result`.
EndAttempt(result) ==
    [attempts EXCEPT ![Len(attempts)] = Attempt(attempts[Len(attempts)].step, result)]

\* ResumeManager.__init__ has run: the record is a copy of the template.
Init ==
    /\ resume \in Resumes
    /\ output = output_template
    /\ pc = "extract_basic_info"
    /\ reply = Completion(<<>>)
    /\ lines = <<>>
    /\ idx = 0
    /\ raised = ""
    /\ attempts = <<>>
    /\ calls = <<>>
    /\ file = <<>>
    /\ stdout = <<>>
    /\ loading = NotLoading
    /\ sent = 0

(***************************************************************************)
(* process_file: the order of the steps and the except clauses             *)
(***************************************************************************)
\* Variant: the call of extract_education is in no try statement.
FallbackOfNoEducation(step) ==
    CASE step = "extract_work_experience" -> "fallback_extract_work_experience"
      [] step = "extract_skills" -> "fallback_extract_skills"
      [] OTHER -> ""

\* Variant: a fallback that fails is followed by another call of the primary.
FallbackOfRetry(step) ==
    CASE step = "extract_work_experience" -> "fallback_extract_work_experience"
      [] step = "extract_skills" -> "fallback_extract_skills"
      [] step = "extract_education" -> "fallback_extract_education"
      [] step = "fallback_extract_skills" -> "extract_skills"
      [] OTHER -> ""

\* The method process_file calls in the except clause around `step`, "" if the
\* call of `step` is in no try statement.
FallbackOf(step) ==
    CASE step = "extract_work_experience" -> "fallback_extract_work_experience"
      [] step = "extract_skills" -> "fallback_extract_skills"
      [] step = "extract_education" -> "fallback_extract_education"
      [] OTHER -> ""

\* Variant: skills are extracted before work experience.
NextOfSkillsFirst(step) ==
    CASE step = "extract_basic_info" -> "extract_skills"
      [] step \in {"extract_skills", "fallback_extract_skills"} -> "extract_work_experience"
      [] step \in {"extract_work_experience", "fallback_extract_work_experience"} ->
            "extract_education"
      [] step \in {"extract_education", "fallback_extract_education"} -> "returned"

\* Variant: the work-experience fallback is the last statement of process_file.
NextOfFallbackEnds(step) ==
    CASE step = "extract_basic_info" -> "extract_work_experience"
      [] step = "extract_work_experience" -> "extract_skills"
      [] step = "fallback_extract_work_experience" -> "returned"
      [] step \in {"extract_skills", "fallback_extract_skills"} -> "extract_education"
      [] step \in {"extract_education", "fallback_extract_education"} -> "returned"

\* The statement process_file runs once `step` (or its fallback) has returned.
NextOf(step) ==
    CASE step = "extract_basic_info" -> "extract_work_experience"
      [] step \in {"extract_work_experience", "fallback_extract_work_experience"} ->
            "extract_skills"
      [] step \in {"extract_skills", "fallback_extract_skills"} -> "extract_education"
      [] step \in {"extract_education", "fallback_extract_education"} -> "returned"

\* Variant: the except clauses catch every exception.
CaughtAny(step, kind) == FallbackOf(step) # ""

\* except openai.APITimeoutError: does an except clause around `step` catch `kind`
Caught(step, kind) == kind = "APITimeoutError" /\ FallbackOf(step) # ""

\* Variant: the script swallows the exception and goes on to write the record.
RaiseSwallowed(kind) ==
    /\ pc' = "returned"
    /\ raised' = kind

\* An exception nothing catches: it leaves process_file and ends the script.
Raise(kind) ==
    /\ pc' = "aborted"
    /\ raised' = kind

\* `step` returns normally.
Return(step) ==
    /\ pc' = NextOf(step)
    /\ raised' = raised

\* `step` raises `kind`.
Fail(step, kind) ==
    IF Caught(step, kind)
    THEN /\ pc' = FallbackOf(step)
         /\ raised' = raised
    ELSE Raise(kind)

(***************************************************************************)
(* extract_basic_info                                                      *)
(***************************************************************************)
\* The try block: the three assignments run in order until a key is missing.
MergePrimaryKeys(out, o) ==
    IF ~HasKey(o, "name") THEN out
    ELSE LET o1 == SetItem(out, "candidate_name", GetItem(o, "name")) IN
         IF ~HasKey(o, "job_title") THEN o1
         ELSE LET o2 == SetItem(o1, "job_title", GetItem(o, "job_title")) IN
              IF ~HasKey(o, "bio") THEN o2
              ELSE SetItem(o2, "bio", GetItem(o, "bio"))

\* Variant: an e-mail address in the answer is preferred to the regex result.
MergeContactInfoFromAnswer(contact, o, text) ==
    LET c1 == IF HasKey(o, "location")
              THEN SetItem(contact, "location", GetItem(o, "location")) ELSE contact
        c2 == IF HasKey(o, "phone")
              THEN SetItem(c1, "phone_number", GetItem(o, "phone")) ELSE c1
        c3 == SetItem(c2, "email_address",
                      IF HasKey(o, "email_address") THEN GetItem(o, "email_address")
                      ELSE extract_emails(text))
    IN SetItem(c3, "personal_urls", extract_github_and_linkedin_urls(text))

\* The two guarded lookups and the two regex extractions, on contact_info.
MergeContactInfo(contact, o, text) ==
    LET c1 == IF HasKey(o, "location")
              THEN SetItem(contact, "location", GetItem(o, "location")) ELSE contact
        c2 == IF HasKey(o, "phone")
              THEN SetItem(c1, "phone_number", GetItem(o, "phone")) ELSE c1
        c3 == SetItem(c2, "email_address", extract_emails(text))
    IN SetItem(c3, "personal_urls", extract_github_and_linkedin_urls(text))

\* Variant: the guarded lookups are inside the try block, after the three
\* assignments, so a missing primary key skips them.
BasicInfoMergeOneTry(out, o, text) ==
    LET o1 == MergePrimaryKeys(out, o)
        seen == IF \A k \in {"name", "job_title", "bio"} : HasKey(o, k) THEN o ELSE Dict(<<>>)
    IN SetItem(o1, "contact_info", MergeContactInfo(GetItem(o1, "contact_info"), seen, text))

\* The record after extract_basic_info merged the parsed response o.
BasicInfoMerge(out, o, text) ==
    LET o1 == MergePrimaryKeys(out, o) IN
    SetItem(o1, "contact_info", MergeContactInfo(GetItem(o1, "contact_info"), o, text))

extract_basic_info ==
    /\ pc = "extract_basic_info"
    /\ calls' = Append(calls, QueryModel("extract_basic_info", TRUE, "basic_details_prompt"))
    /\ \E r \in {Completion(t) : t \in BasicTexts} \cup Failures :
         /\ reply' = r
         /\ LET parsed == JsonLoads(r.text, TRUE)
                result == IF r.kind # "ok" THEN r.kind
                          ELSE IF ~parsed.ok THEN "JSONDecodeError" ELSE "ok"
            IN /\ attempts' = Append(attempts, Attempt("extract_basic_info", result))
               /\ IF result = "ok"
                  THEN /\ output' = BasicInfoMerge(output, parsed.val, resume)
                       /\ Return("extract_basic_info")
                  ELSE /\ output' = output
                       /\ Fail("extract_basic_info", result)
    /\ UNCHANGED <<loading, sent, resume, lines, idx, file, stdout>>

(***************************************************************************)
(* extract_pydantic                                                        *)
(***************************************************************************)
\* What chain.invoke can end with: the objects built, or an exception.
ChainResults(objects) ==
    {[kind |-> "ok", text |-> objs] : objs \in SeqsUpTo(objects, MaxEntries)}
    \cup Failures \cup {ValidationError}

\* [json.loads(x.json().encode('utf-8')) for x in output]
EntriesToList(objs) == List([i \in 1..Len(objs) |-> PydanticToDict(objs[i])])

\* The shared body of extract_work_experience and extract_education.
ExtractEntries(step, target, objects, key) ==
    /\ calls' = Append(calls, ExtractPydantic(step, target))
    /\ \E r \in ChainResults(objects) :
         /\ reply' = r
         /\ attempts' = Append(attempts, Attempt(step, r.kind))
         /\ IF r.kind = "ok"
            THEN /\ output' = SetItem(output, key, EntriesToList(r.text))
                 /\ Return(step)
            ELSE /\ output' = output
                 /\ Fail(step, r.kind)
    /\ UNCHANGED <<loading, sent, resume, lines, idx, file, stdout>>

(***************************************************************************)
(* work experience                                                         *)
(***************************************************************************)
extract_work_experience ==
    /\ pc = "extract_work_experience"
    /\ ExtractEntries("extract_work_experience", "WorkExperience", WorkObjects, "work_output")

\* Phase 1: the enumeration call and the split of its answer into lines.
fallback_extract_work_experience ==
    /\ pc = "fallback_extract_work_experience"
    /\ calls' = Append(calls, QueryModel("fallback_extract_work_experience", FALSE,
                                         "companies_prompt"))
    /\ \E r \in {Completion(t) : t \in EnumTexts} \cup Failures :
         /\ reply' = r
         /\ IF r.kind = "ok"
            THEN /\ attempts' = Append(attempts,
                                       Attempt("fallback_extract_work_experience", "running"))
                 /\ lines' = Split(r.text, "\n")
                 /\ idx' = 1
                 /\ pc' = "fallback_work_loop"
                 /\ raised' = raised
            ELSE /\ attempts' = Append(attempts,
                                       Attempt("fallback_extract_work_experience", r.kind))
                 /\ Fail("fallback_extract_work_experience", r.kind)
                 /\ UNCHANGED <<lines, idx>>
    /\ UNCHANGED <<loading, sent, resume, output, file, stdout>>

\* Variant: only the "answer" test skips a line.
SkippedAnswerOnly(line) == ContainsAnswer(Lower(line))

\* The line is skipped by one of the two `continue` statements.
Skipped(line) ==
    \/ ContainsAnswer(Lower(line))
    \/ RStrip(Split(line, ",")[1]) = <<>>

\* entry[0].rstrip()
company_name(line) == RStrip(Split(line, ",")[1])

\* Variant: the role is read from the last field, entry[-1].
roleLastField(line) ==
    LET entry == Split(line, ",") IN RStrip(entry[Len(entry)])

\* entry[1].rstrip(), or "" on IndexError
role(line) ==
    LET entry == Split(line, ",") IN
    IF Len(entry) >= 2 THEN RStrip(entry[2]) ELSE <<>>

\* Variant: the loop never leaves its line.
LoopAdvanceSameLine ==
    /\ idx' = idx
    /\ lines' = lines
    /\ attempts' = attempts
    /\ pc' = "fallback_work_loop"
    /\ raised' = raised

\* The loop moves to the next line, or the method returns after the last one.
LoopAdvance ==
    IF idx < Len(lines)
    THEN /\ idx' = idx + 1
         /\ lines' = lines
         /\ attempts' = attempts
         /\ pc' = "fallback_work_loop"
         /\ raised' = raised
    ELSE /\ idx' = 0
         /\ lines' = <<>>
         /\ attempts' = EndAttempt("ok")
         /\ Return("fallback_extract_work_experience")

\* Phase 2: one iteration of the for loop over the enumerated lines.
fallback_work_loop ==
    /\ pc = "fallback_work_loop"
    /\ LET line == lines[idx] IN
       IF Skipped(line)
       THEN LoopAdvance /\ UNCHANGED <<output, calls, reply>>
       ELSE /\ calls' = Append(calls, Call("fallback_extract_work_experience", "query_model",
                                           TRUE, "work_experience_prompt",
                                           company_name(line), role(line)))
            /\ \E r \in {Completion(t) : t \in CompanyTexts(company_name(line), role(line))}
                        \cup Failures :
                 /\ reply' = r
                 /\ LET parsed == JsonLoads(r.text, FALSE)
                        result == IF r.kind # "ok" THEN r.kind
                                  ELSE IF ~parsed.ok THEN "JSONDecodeError" ELSE "ok"
                    IN IF result = "ok"
                       THEN /\ output' = SetItem(output, "work_output",
                                             ListAppend(GetItem(output, "work_output"),
                                                        parsed.val))
                            /\ LoopAdvance
                       ELSE /\ attempts' = EndAttempt(result)
                            /\ Fail("fallback_extract_work_experience", result)
                            /\ UNCHANGED <<output, lines, idx>>
    /\ UNCHANGED <<loading, sent, resume, file, stdout>>

(***************************************************************************)
(* skills                                                                  *)
(***************************************************************************)
\* Variant: the optional 'other' value is stored under the key of the response.
SkillsMergeOtherKey(out, o) ==
    LET o1 == SetItem(out, "skills", GetItem(o, "skills"))
        o2 == IF HasKey(o, "professional_development")
              THEN SetItem(o1, "professional_development",
                           GetItem(o, "professional_development"))
              ELSE o1
    IN IF HasKey(o, "other") THEN SetItem(o2, "other", GetItem(o, "other")) ELSE o2

\* Variant: the optional 'other' value is stored in the education slot.
SkillsMergeIntoEducation(out, o) ==
    LET o1 == SetItem(out, "skills", GetItem(o, "skills"))
        o2 == IF HasKey(o, "professional_development")
              THEN SetItem(o1, "professional_development",
                           GetItem(o, "professional_development"))
              ELSE o1
    IN IF HasKey(o, "other") THEN SetItem(o2, "education", GetItem(o, "other")) ELSE o2

\* The record after extract_skills merged the parsed response o (which has 'skills').
SkillsMerge(out, o) ==
    LET o1 == SetItem(out, "skills", GetItem(o, "skills"))
        o2 == IF HasKey(o, "professional_development")
              THEN SetItem(o1, "professional_development",
                           GetItem(o, "professional_development"))
              ELSE o1
    IN IF HasKey(o, "other") THEN SetItem(o2, "other_info", GetItem(o, "other")) ELSE o2

\* Variant: the optional 'other' key is stored before 'skills' is looked up.
SkillsOtherBeforeKeyError(out, o) ==
    IF HasKey(o, "other") THEN SetItem(out, "other_info", GetItem(o, "other")) ELSE out

\* The record when output['skills'] raises KeyError: the lookup is in the
\* first assignment of the method, so nothing has been stored.
SkillsBeforeKeyError(out, o) == out

extract_skills ==
    /\ pc = "extract_skills"
    /\ calls' = Append(calls, QueryModel("extract_skills", TRUE, "skills_prompt"))
    /\ \E r \in {Completion(t) : t \in SkillsTexts} \cup Failures :
         /\ reply' = r
         /\ LET parsed == JsonLoads(r.text, TRUE)
                result == IF r.kind # "ok" THEN r.kind
                          ELSE IF ~parsed.ok THEN "JSONDecodeError"
                          ELSE IF ~HasKey(parsed.val, "skills") THEN "KeyError" ELSE "ok"
            IN /\ attempts' = Append(attempts, Attempt("extract_skills", result))
               /\ IF result = "ok"
                  THEN /\ output' = SkillsMerge(output, parsed.val)
                       /\ Return("extract_skills")
                  ELSE /\ output' = IF result = "KeyError"
                                      THEN SkillsBeforeKeyError(output, parsed.val)
                                      ELSE output
                       /\ Fail("extract_skills", result)
    /\ UNCHANGED <<loading, sent, resume, lines, idx, file, stdout>>

\* The shared body of fallback_extract_skills and fallback_extract_education:
\* one free-text call whose answer is stored as it is under `key`.
FallbackStore(step, prompt, key) ==
    /\ calls' = Append(calls, QueryModel(step, FALSE, prompt))
    /\ \E r \in {Completion(t) : t \in FreeTexts} \cup Failures :
         /\ reply' = r
         /\ attempts' = Append(attempts, Attempt(step, r.kind))
         /\ IF r.kind = "ok"
            THEN /\ output' = SetItem(output, key, Str(r.text))
                 /\ Return(step)
            ELSE /\ output' = output
                 /\ Fail(step, r.kind)
    /\ UNCHANGED <<loading, sent, resume, lines, idx, file, stdout>>

fallback_extract_skills ==
    /\ pc = "fallback_extract_skills"
    /\ FallbackStore("fallback_extract_skills", "skills_fallback", "skills")

(***************************************************************************)
(* education                                                               *)
(***************************************************************************)
extract_education ==
    /\ pc = "extract_education"
    /\ ExtractEntries("extract_education", "Education", EducationObjects, "education")

fallback_extract_education ==
    /\ pc = "fallback_extract_education"
    /\ FallbackStore("fallback_extract_education", "fallback_education_prompt", "education")

(***************************************************************************)
(* The script body after process_file                                      *)
(***************************************************************************)
\* with open(output_file_path, 'w') as file: json.dump(resume_manager.output, file, indent=2)
write_output_file ==
    /\ pc = "returned"
    /\ file' = Append(file, Dumps(output))
    /\ pc' = "written"
    /\ UNCHANGED <<loading, sent, resume, output, reply, lines, idx, raised, attempts, calls, stdout>>

\* print(json.dumps(resume_manager.output, indent=2))
print_output ==
    /\ pc = "written"
    /\ stdout' = Append(stdout, Dumps(output))
    /\ pc' = "done"
    /\ UNCHANGED <<loading, sent, resume, output, reply, lines, idx, raised, attempts, calls, file>>

Next ==
    \/ extract_basic_info
    \/ extract_work_experience
    \/ fallback_extract_work_experience
    \/ fallback_work_loop
    \/ extract_skills
    \/ fallback_extract_skills
    \/ extract_education
    \/ fallback_extract_education
    \/ write_output_file
    \/ print_output

Spec == Init /\ [][Next]_vars

(***************************************************************************)
(* The script from its first statement: ResumeManager(args.file_path, ...) *)
(***************************************************************************)
\* The status the process ends with: sys.exit with a message and an uncaught
\* exception both end it with status 1.
ExitStatus == IF raised = "" THEN 0 ELSE 1

\* ResumeManager.__init__: the template is copied, then get_resume_content
\* reads the file, or ends the process, or fails on a file it cannot read.
construct ==
    /\ pc = "main"
    /\ output' = output_template
    /\ LET ext == ExtensionOf(loading.file, loading.extension) IN
       IF ReaderOf(ext) = ""
       THEN /\ pc' = "exited"
            /\ raised' = "SystemExit"
            /\ loading' = [loading EXCEPT !.extension = ext]
            /\ resume' = resume
       ELSE IF ReaderOf(ext) # loading.doc.kind
       THEN /\ Raise("ReadError")
            /\ loading' = [loading EXCEPT !.extension = ext]
            /\ resume' = resume
       ELSE /\ resume' = ContentOf(loading.doc)
            /\ pc' = "extract_basic_info"
            /\ raised' = raised
            /\ loading' = NotLoading
    /\ UNCHANGED <<reply, lines, idx, attempts, calls, file, stdout, sent>>

\* The script is started on one of the files; no ResumeManager exists yet.
InitScript ==
    /\ loading \in Sources
    /\ resume = <<>>
    /\ output = Dict(<<>>)
    /\ pc = "main"
    /\ reply = Completion(<<>>)
    /\ lines = <<>>
    /\ idx = 0
    /\ raised = ""
    /\ attempts = <<>>
    /\ calls = <<>>
    /\ file = <<>>
    /\ stdout = <<>>
    /\ sent = 0

NextScript ==
    \/ construct
    \/ Next

SpecScript == InitScript /\ [][NextScript]_vars

(***************************************************************************)
(* get_resume_content on documents of every shape                          *)
(***************************************************************************)
\* The text atoms of pages and paragraphs.
PageAtoms == {"John", " ", "\n"}

ParagraphAtoms == {"John", " "}

Documents ==
    {PdfDocument(pages) : pages \in SeqsUpTo(SeqsUpTo(PageAtoms, MaxPartLen), MaxParts)}
    \cup {DocxDocument(ps) : ps \in SeqsUpTo(SeqsUpTo(ParagraphAtoms, MaxPartLen), MaxParts)}

\* The extensions a file of each kind is given.
ExtensionsOf(doc) == IF doc.kind = "pdf" THEN {PdfExt} ELSE {DocxExt, DocExt}

\* The constructor is about to read a file of a supported kind.
InitLoader ==
    /\ \E doc \in Documents : \E ext \in ExtensionsOf(doc) :
            loading \in {Loading(<<"cv">> \o ext, <<>>, doc), Loading(<<"cv">>, ext, doc)}
    /\ resume = <<>>
    /\ output = Dict(<<>>)
    /\ pc = "main"
    /\ reply = Completion(<<>>)
    /\ lines = <<>>
    /\ idx = 0
    /\ raised = ""
    /\ attempts = <<>>
    /\ calls = <<>>
    /\ file = <<>>
    /\ stdout = <<>>
    /\ sent = 0

SpecLoader == InitLoader /\ [][construct]_vars

\* The script is one sequential thread: a statement that can run does run.
SpecFair == Spec /\ WF_vars(Next)

(***************************************************************************)
(* One model call on its client: the requests behind it                    *)
(***************************************************************************)
\* OpenAI() is built with no max_retries: the client's own default applies.
DefaultMaxRetries == 2

\* ChatOpenAI(..., max_retries=1)
ChainMaxRetries == 1

\* Variant: the chat model of the chains is built without max_retries too.
MaxRetriesDefaultOnly(fn) == DefaultMaxRetries

\* The retries the client of `fn` makes after a request that failed.
MaxRetries(fn) == IF fn = "extract_pydantic" THEN ChainMaxRetries ELSE DefaultMaxRetries

\* The model calls of the program, one per call site.
CallSites ==
    { QueryModel("extract_basic_info", TRUE, "basic_details_prompt"),
      ExtractPydantic("extract_work_experience", "WorkExperience"),
      QueryModel("fallback_extract_work_experience", FALSE, "companies_prompt"),
      Call("fallback_extract_work_experience", "query_model", TRUE, "work_experience_prompt",
           <<"Acme">>, <<"Dev">>),
      QueryModel("extract_skills", TRUE, "skills_prompt"),
      QueryModel("fallback_extract_skills", FALSE, "skills_fallback"),
      ExtractPydantic("extract_education", "Education"),
      QueryModel("fallback_extract_education", FALSE, "fallback_education_prompt") }

\* The call under way.
TheCall == calls[1]

\* The client sends one request: the endpoint answers it, or it times out, or
\* it fails otherwise.
client_request ==
    /\ pc = "client"
    /\ sent' = sent + 1
    /\ \E r \in {Completion(t) : t \in FreeTexts} \cup Failures :
         /\ reply' = r
         /\ pc' = IF r.kind = "ok" THEN "client_returned" ELSE "client_failed"
    /\ UNCHANGED <<loading, resume, output, lines, idx, raised, attempts, calls, file, stdout>>

\* The client sends the request again: a timeout is always retried while
\* retries are left, another failure when it is of a retryable kind.
client_retry ==
    /\ pc = "client_failed"
    /\ sent <= MaxRetries(TheCall.fn)
    /\ pc' = "client"
    /\ UNCHANGED <<loading, sent, resume, output, reply, lines, idx, raised, attempts, calls,
                   file, stdout>>

\* The failure is raised to the method that made the call: no retry is left,
\* or the failure is not of a retryable kind.
client_raise ==
    /\ pc = "client_failed"
    /\ sent > MaxRetries(TheCall.fn) \/ reply.kind # "APITimeoutError"
    /\ pc' = "client_raised"
    /\ raised' = reply.kind
    /\ UNCHANGED <<loading, sent, resume, output, reply, lines, idx, attempts, calls,
                   file, stdout>>

\* A method of a constructed ResumeManager is about to make one of the calls.
InitClient ==
    /\ resume \in Resumes
    /\ output = output_template
    /\ pc = "client"
    /\ calls \in { <<c>> : c \in CallSites }
    /\ sent = 0
    /\ reply = Completion(<<>>)
    /\ lines = <<>>
    /\ idx = 0
    /\ raised = ""
    /\ attempts = <<>>
    /\ file = <<>>
    /\ stdout = <<>>
    /\ loading = NotLoading

NextClient ==
    \/ client_request
    \/ client_retry
    \/ client_raise

SpecClient == InitClient /\ [][NextClient]_vars

(***************************************************************************)
(* Vocabulary of the properties                                            *)
(***************************************************************************)
Sections == <<"basic info", "work experience", "skills", "education">>

PrimaryOf ==
    [s \in Range(Sections) |->
        CASE s = "basic info" -> "extract_basic_info"
          [] s = "work experience" -> "extract_work_experience"
          [] s = "skills" -> "extract_skills"
          [] s = "education" -> "extract_education"]

\* The fallback procedure a section would have under the two-state pattern.
FallbackProcedureOf ==
    [s \in Range(Sections) |->
        CASE s = "basic info" -> "fallback_extract_basic_info"
          [] s = "work experience" -> "fallback_extract_work_experience"
          [] s = "skills" -> "fallback_extract_skills"
          [] s = "education" -> "fallback_extract_education"]

\* Every attempt in the order the spec fixes.
StepOrder ==
    <<"extract_basic_info",
      "extract_work_experience", "fallback_extract_work_experience",
      "extract_skills", "fallback_extract_skills",
      "extract_education", "fallback_extract_education">>

Rank(step) == CHOOSE i \in 1..Len(StepOrder) : StepOrder[i] = step

SectionIndex(step) ==
    CHOOSE k \in 1..Len(Sections) :
        step \in {PrimaryOf[Sections[k]], FallbackProcedureOf[Sections[k]]}

IsPrimary(step) == \E s \in Range(Sections) : step = PrimaryOf[s]

IsFallback(step) == \E s \in Range(Sections) : step = FallbackProcedureOf[s]

ExceptionKinds ==
    {"APITimeoutError", "APIError", "ValidationError", "JSONDecodeError", "KeyError"}

AttemptIndexes == 1..Len(attempts)

\* Attempt i is the primary attempt of section s and ended in a timeout.
PrimaryTimedOut(i, s) ==
    attempts[i] = Attempt(PrimaryOf[s], "APITimeoutError")

\* Right after attempt i the step f runs: it is the next attempt, or the
\* statement the script is about to execute.
RunsNext(i, f) ==
    IF i < Len(attempts) THEN attempts[i + 1].step = f ELSE pc = f

\* Section number k has finished before attempt i started.
FinishedBefore(k, i) ==
    \E j \in 1..(i - 1) : SectionIndex(attempts[j].step) = k /\ attempts[j].result = "ok"

Terminated == pc \in {"done", "aborted"}

(***************************************************************************)
(* C1                                                                      *)
(***************************************************************************)
\* C1: the attempts of a run start in the fixed order basic info, work
\* experience, skills, education, each fallback right after its primary; an
\* attempt starts only when every earlier section has finished, only the
\* latest attempt can be in progress, model calls of different attempts do
\* not interleave, and no method is attempted twice.
C1_FixedOrder ==
    /\ \A i \in 1..(Len(attempts) - 1) :
         /\ Rank(attempts[i].step) < Rank(attempts[i + 1].step)
         /\ attempts[i].result # "running"
    /\ \A i \in AttemptIndexes :
         /\ \A k \in 1..(SectionIndex(attempts[i].step) - 1) : FinishedBefore(k, i)
         /\ IsFallback(attempts[i].step) =>
                /\ i > 1
                /\ attempts[i - 1].step = PrimaryOf[Sections[SectionIndex(attempts[i].step)]]
    /\ \A i \in 1..(Len(calls) - 1) : Rank(calls[i].by) <= Rank(calls[i + 1].by)
    /\ \A i \in 1..Len(calls) : \E j \in AttemptIndexes : attempts[j].step = calls[i].by
    /\ Len(calls) > 0 /\ Len(attempts) > 0 =>
            Rank(calls[Len(calls)].by) <= Rank(attempts[Len(attempts)].step)

\* A run in which every primary timed out and every fallback completed.
C1_Witness ==
    /\ pc = "done"
    /\ [i \in AttemptIndexes |-> attempts[i].step] = StepOrder

(***************************************************************************)
(* C2                                                                      *)
(***************************************************************************)
\* C2 as stated: in each of the four sections, basic info included, a primary
\* attempt that times out is followed by that section's fallback attempt.
C2_AllFourFallBack ==
    \A i \in AttemptIndexes : \A s \in Range(Sections) :
        PrimaryTimedOut(i, s) => RunsNext(i, FallbackProcedureOf[s])

\* C2 amended: in work experience, skills and education a primary attempt that
\* times out is followed by that section's fallback attempt; basic info has no
\* fallback, and a timeout of its primary attempt ends the run.
C2_ThreeFallBack ==
    \A i \in AttemptIndexes : \A s \in Range(Sections) :
        PrimaryTimedOut(i, s) =>
            IF s = "basic info"
            THEN /\ i = Len(attempts)
                 /\ pc = "aborted"
                 /\ raised = "APITimeoutError"
            ELSE RunsNext(i, FallbackProcedureOf[s])

\* The skills primary timed out and the skills fallback ran to its end.
C2_Witness ==
    \E i \in 1..(Len(attempts) - 1) :
        /\ PrimaryTimedOut(i, "skills")
        /\ attempts[i + 1] = Attempt("fallback_extract_skills", "ok")

(***************************************************************************)
(* C3                                                                      *)
(***************************************************************************)
\* The top-level keys of the record that section number k owns.
OwnedKeys(k) ==
    CASE k = 1 -> {"candidate_name", "job_title", "bio", "contact_info"}
      [] k = 2 -> {"work_output"}
      [] k = 3 -> {"skills", "professional_development", "other_info"}
      [] k = 4 -> {"education"}

\* This step ended an attempt with an exception.
AttemptFails ==
    /\ attempts' # attempts
    /\ attempts'[Len(attempts')].result \in ExceptionKinds

\* A step that ends an attempt with an exception leaves every key that other
\* sections own as it was.
FailureKeepsOtherFields ==
    AttemptFails =>
        \A key \in Keys(output) \ OwnedKeys(SectionIndex(attempts'[Len(attempts')].step)) :
            /\ HasKey(output', key)
            /\ GetItem(output', key) = GetItem(output, key)

\* Attempt i failed, and the sections after its own are still attempted: the
\* run has not ended before an attempt of the last section.
LaterSectionsAttempted(i) ==
    pc = "aborted" => \E j \in AttemptIndexes : SectionIndex(attempts[j].step) = Len(Sections)

\* C3 as stated: whatever fails in a section, in its primary attempt or in its
\* fallback, the later sections are still attempted and the fields other
\* sections own are unchanged.
C3_AnyFailureIndependent ==
    /\ [](\A i \in AttemptIndexes :
            attempts[i].result \in ExceptionKinds => LaterSectionsAttempted(i))
    /\ [][FailureKeepsOtherFields]_vars

\* The run goes on after the primary attempt i of section s timed out: the
\* fallback runs, and once it has returned the next section is attempted.
GoesOnAfterTimeout(i, s) ==
    /\ RunsNext(i, FallbackProcedureOf[s])
    /\ i < Len(attempts) /\ attempts[i + 1].result = "ok" =>
            IF s = "education"
            THEN i + 1 = Len(attempts) /\ pc \in {"returned", "written", "done"}
            ELSE RunsNext(i + 1, PrimaryOf[Sections[SectionIndex(PrimaryOf[s]) + 1]])

\* The exception of attempt i ended the run: no later attempt, no output.
EndsRun(i) ==
    /\ i = Len(attempts)
    /\ pc = "aborted"
    /\ raised = attempts[i].result
    /\ file = <<>>

\* C3 amended: a timeout of the primary attempt of work experience, skills or
\* education does not prevent the later sections from being attempted; every
\* other failure (a timeout of basic info or of a fallback, any other
\* exception) ends the run with no later section attempted; and no failure
\* changes the fields other sections own.
C3_TimeoutIndependent ==
    /\ [](\A i \in AttemptIndexes :
            attempts[i].result \in ExceptionKinds =>
                IF \E s \in Range(Sections) \ {"basic info"} : PrimaryTimedOut(i, s)
                THEN \A s \in Range(Sections) \ {"basic info"} :
                        PrimaryTimedOut(i, s) => GoesOnAfterTimeout(i, s)
                ELSE EndsRun(i))
    /\ [][FailureKeepsOtherFields]_vars

\* The work-experience primary timed out, its fallback appended an entry and
\* returned, and skills and education were attempted after it.
C3_Witness ==
    /\ Len(attempts) >= 5
    /\ PrimaryTimedOut(2, "work experience")
    /\ attempts[3] = Attempt("fallback_extract_work_experience", "ok")
    /\ Len(GetItem(output, "work_output").v) > 0
    /\ attempts[4].step = "extract_skills"
    /\ attempts[5].step = "extract_education"

(***************************************************************************)
(* C4                                                                      *)
(***************************************************************************)
\* C4: a fallback procedure is attempted if and only if the primary attempt of
\* its own section ended in a timeout; an exception of any other kind, from a
\* primary or from a fallback, starts no fallback and ends the run: it is the
\* last attempt, the script is aborted with that exception, nothing is written.
C4_FallbackIffTimeout ==
    /\ \A i \in AttemptIndexes :
         IsFallback(attempts[i].step) =>
            /\ i > 1
            /\ \E s \in Range(Sections) :
                 /\ attempts[i].step = FallbackProcedureOf[s]
                 /\ PrimaryTimedOut(i - 1, s)
    /\ \A s \in Range(Sections) :
         pc = FallbackProcedureOf[s] =>
            Len(attempts) > 0 /\ PrimaryTimedOut(Len(attempts), s)
    /\ \A i \in AttemptIndexes : \A s \in Range(Sections) \ {"basic info"} :
         PrimaryTimedOut(i, s) => RunsNext(i, FallbackProcedureOf[s])
    /\ \A i \in AttemptIndexes :
         attempts[i].result \in ExceptionKinds \ {"APITimeoutError"} =>
            /\ i = Len(attempts)
            /\ pc = "aborted"
            /\ raised = attempts[i].result
            /\ file = <<>> /\ stdout = <<>>

\* The skills answer lacked the required key after the work-experience
\* fallback had run: the run is over and education was never attempted.
C4_Witness ==
    /\ pc = "aborted"
    /\ raised = "KeyError"
    /\ \E i \in AttemptIndexes : attempts[i].step = "fallback_extract_work_experience"
    /\ attempts[Len(attempts)] = Attempt("extract_skills", "KeyError")

(***************************************************************************)
(* C5                                                                      *)
(***************************************************************************)
\* How often `step` was attempted.
TimesAttempted(step) == Cardinality({i \in AttemptIndexes : attempts[i].step = step})

\* C5: in work experience, skills and education (the sections that have a
\* fallback procedure) the fallback is attempted at most once, and exactly
\* once when the primary attempt timed out (it is then the next statement or
\* has been attempted); when the fallback fails, by timeout or otherwise, it
\* is the last attempt of the run: neither the primary nor the fallback of
\* that section is attempted again.
C5_FallbackOnce ==
    \A s \in Range(Sections) \ {"basic info"} :
        /\ TimesAttempted(PrimaryOf[s]) <= 1
        /\ TimesAttempted(FallbackProcedureOf[s]) <= 1
        /\ (\E i \in AttemptIndexes : PrimaryTimedOut(i, s)) =>
              \/ TimesAttempted(FallbackProcedureOf[s]) = 1
              \/ pc = FallbackProcedureOf[s]
        /\ \A i \in AttemptIndexes :
              /\ attempts[i].step = FallbackProcedureOf[s]
              /\ attempts[i].result \in ExceptionKinds
              => /\ i = Len(attempts)
                 /\ pc = "aborted"
                 /\ TimesAttempted(PrimaryOf[s]) = 1

\* The skills fallback itself timed out after the skills primary had.
C5_Witness ==
    /\ Len(attempts) >= 2
    /\ attempts[Len(attempts)] = Attempt("fallback_extract_skills", "APITimeoutError")
    /\ attempts[Len(attempts) - 1] = Attempt("extract_skills", "APITimeoutError")
    /\ pc = "aborted"

(***************************************************************************)
(* C6                                                                      *)
(***************************************************************************)
\* The value the record holds for a key of the basic-info response.
BasicField(out, k) ==
    CASE k = "name" -> GetItem(out, "candidate_name")
      [] k = "job_title" -> GetItem(out, "job_title")
      [] k = "bio" -> GetItem(out, "bio")
      [] k = "location" -> GetItem(GetItem(out, "contact_info"), "location")
      [] k = "phone" -> GetItem(GetItem(out, "contact_info"), "phone_number")

\* extract_basic_info was called and its answer was a JSON object.
BasicAnswered ==
    /\ Len(attempts) = 1
    /\ pc \in {"extract_work_experience", "aborted"}
    /\ reply.kind = "ok"
    /\ JsonLoads(reply.text, TRUE).ok

\* C6 as stated: when the basic-info answer is a JSON object with any subset
\* of the keys name, job_title, bio, location, phone, extract_basic_info
\* raises nothing, every field whose key is present holds the answer's value
\* and every field whose key is absent holds its template default.
C6_PresentKeysSet ==
    BasicAnswered =>
        /\ attempts[1].result = "ok"
        /\ \A k \in Range(BasicKeys) :
             LET o == JsonLoads(reply.text, TRUE).val IN
             BasicField(output, k) =
                IF HasKey(o, k) THEN GetItem(o, k) ELSE BasicField(output_template, k)

(***************************************************************************)
(* C7                                                                      *)
(***************************************************************************)
\* Atoms whose lower-case form contains "answer".
AnswerAtoms == {"Answer", "answer"}

\* The line has no "answer" in it and text before its first comma that is not
\* all whitespace.
ValidLine(line) ==
    /\ \A i \in 1..Len(line) : line[i] \notin AnswerAtoms
    /\ \E i \in 1..Len(line) :
         /\ line[i] \notin Whitespace \cup {","}
         /\ \A j \in 1..i : line[j] # ","

EnumerationCalls == {i \in 1..Len(calls) : calls[i].prompt = "companies_prompt"}

CompanyCalls == {i \in 1..Len(calls) : calls[i].prompt = "work_experience_prompt"}

\* This step issued exactly one call, with this prompt and mode.
IssuesOneCall(prompt, json_mode) ==
    /\ Len(calls') = Len(calls) + 1
    /\ SubSeq(calls', 1, Len(calls)) = calls
    /\ calls'[Len(calls')].prompt = prompt
    /\ calls'[Len(calls')].json_mode = json_mode
    /\ calls'[Len(calls')].fn = "query_model"

\* What the steps of the work-experience fallback do to the call history and
\* to the iterated lines.
FallbackWorkStep ==
    /\ pc = "fallback_extract_work_experience" => IssuesOneCall("companies_prompt", FALSE)
    /\ pc = "fallback_work_loop" =>
         /\ IF ValidLine(lines[idx])
            THEN IssuesOneCall("work_experience_prompt", TRUE)
            ELSE calls' = calls
         /\ pc' = "fallback_work_loop" => lines' = lines /\ idx' = idx + 1
         /\ pc' \notin {"fallback_work_loop", "aborted"} => idx = Len(lines)

\* While the loop runs: one enumeration call was issued, the lines are those
\* of the enumeration answer, and the structured calls so far are one per
\* valid line already passed.
FallbackWorkLoopState ==
    /\ pc = "fallback_work_loop" =>
         /\ Cardinality(EnumerationCalls) = 1
         /\ idx \in 1..Len(lines)
         /\ idx = 1 => /\ Join(lines, 1, "\n") = reply.text
                       /\ \A i \in 1..Len(lines) : \A j \in 1..Len(lines[i]) :
                            lines[i][j] # "\n"
         /\ Cardinality(CompanyCalls) =
                Cardinality({i \in 1..(idx - 1) : ValidLine(lines[i])})
    /\ Cardinality(EnumerationCalls) =
            TimesAttempted("fallback_extract_work_experience")
    /\ TimesAttempted("fallback_extract_work_experience") = 0 => CompanyCalls = {}

\* C7: after the primary work-experience call timed out the fallback issues
\* exactly one enumeration call; each loop iteration then issues exactly one
\* JSON-mode call when its line has no "answer" and a non-blank first field,
\* and none otherwise; the loop passes the lines of the enumeration answer one
\* by one, whatever the per-company calls answer, and returns only after the
\* last line.
C7_OneCallPerValidLine ==
    /\ []FallbackWorkLoopState
    /\ [][FallbackWorkStep]_vars

\* The loop is at the second of two lines: the first was valid and got its
\* call, the second is an instruction echo.
C7_Witness ==
    /\ pc = "fallback_work_loop"
    /\ Len(lines) = 2 /\ idx = 2
    /\ ValidLine(lines[1])
    /\ \E j \in 1..Len(lines[2]) : lines[2][j] \in AnswerAtoms
    /\ Cardinality(CompanyCalls) = 1

(***************************************************************************)
(* C8                                                                      *)
(***************************************************************************)
\* No step of section number k has written to the record: the section was not
\* attempted, or its attempts raised before their first assignment.
NothingWritten(k) ==
    \A i \in AttemptIndexes :
        SectionIndex(attempts[i].step) = k =>
            /\ attempts[i].result \in ExceptionKinds
            /\ attempts[i].step # "fallback_extract_work_experience"

\* C8: in every reachable state the record has exactly the template's
\* top-level keys, in the template's order, and contact_info exactly the
\* template's contact keys; the keys of a section none of whose steps has
\* written still hold their template defaults.
C8_TemplateShape ==
    /\ [i \in 1..Len(output.v) |-> output.v[i][1]]
            = [i \in 1..Len(output_template.v) |-> output_template.v[i][1]]
    /\ GetItem(output, "contact_info").t = "dict"
    /\ [i \in 1..Len(GetItem(output, "contact_info").v) |->
            GetItem(output, "contact_info").v[i][1]]
            = [i \in 1..Len(GetItem(output_template, "contact_info").v) |->
                    GetItem(output_template, "contact_info").v[i][1]]
    /\ \A k \in 1..Len(Sections) :
         NothingWritten(k) =>
            \A key \in OwnedKeys(k) : GetItem(output, key) = GetItem(output_template, key)

\* A finished run whose skills answer had the optional keys, whose education
\* came from the fallback and whose work experience came from the loop.
C8_Witness ==
    /\ pc = "done"
    /\ GetItem(output, "other_info") # GetItem(output_template, "other_info")
    /\ GetItem(output, "education").t = "str"
    /\ Len(GetItem(output, "work_output").v) > 0

(***************************************************************************)
(* C9                                                                      *)
(***************************************************************************)
\* The section whose step the script is about to run, 0 after process_file.
ActingSection ==
    CASE pc = "extract_basic_info" -> 1
      [] pc \in {"extract_work_experience", "fallback_extract_work_experience",
                 "fallback_work_loop"} -> 2
      [] pc \in {"extract_skills", "fallback_extract_skills"} -> 3
      [] pc \in {"extract_education", "fallback_extract_education"} -> 4
      [] OTHER -> 0

\* The record with every key the section k does not own put back to its
\* template default.
OnlyOwn(out, k) ==
    Dict([i \in 1..Len(out.v) |->
            IF out.v[i][1] \in OwnedKeys(k) THEN out.v[i]
            ELSE <<out.v[i][1], GetItem(output_template, out.v[i][1])>>])

\* The step took the answer reply' and ended normally or, in the loop, went on.
StepSucceeds ==
    /\ reply' .kind = "ok"
    /\ pc' # "aborted"
    /\ pc' # FallbackOf(pc)

\* What the step about to run writes, given the answer, when it runs on the
\* record `out`.
StepWrites(out) ==
    CASE pc = "extract_basic_info" ->
            BasicInfoMerge(out, JsonLoads(reply' .text, TRUE).val, resume)
      [] pc = "extract_work_experience" ->
            SetItem(out, "work_output", EntriesToList(reply' .text))
      [] pc = "fallback_extract_work_experience" -> out
      [] pc = "fallback_work_loop" ->
            IF calls' = calls THEN out
            ELSE SetItem(out, "work_output",
                         ListAppend(GetItem(out, "work_output"),
                                    JsonLoads(reply' .text, FALSE).val))
      [] pc = "extract_skills" -> SkillsMerge(out, JsonLoads(reply' .text, TRUE).val)
      [] pc = "fallback_extract_skills" -> SetItem(out, "skills", Str(reply' .text))
      [] pc = "extract_education" -> SetItem(out, "education", EntriesToList(reply' .text))
      [] pc = "fallback_extract_education" -> SetItem(out, "education", Str(reply' .text))

\* A step of section k leaves every key k does not own as it was, and what it
\* leaves in its own keys is what it would leave had the other sections never
\* written anything.
OwnSliceOnly ==
    LET k == ActingSection IN
    IF k = 0 THEN output' = output
    ELSE /\ \A key \in (Keys(output) \cup Keys(output')) \ OwnedKeys(k) :
              /\ HasKey(output, key) /\ HasKey(output', key)
              /\ GetItem(output', key) = GetItem(output, key)
         /\ StepSucceeds => OnlyOwn(output', k) = StepWrites(OnlyOwn(output, k))

\* C9: each step writes only the keys of its own section (basic info:
\* candidate_name, job_title, bio, contact_info; skills: skills,
\* professional_development, other_info; education: education; work
\* experience: work_output) and leaves every other key unchanged, and what it
\* writes does not depend on the fields the other sections wrote; the steps
\* after process_file change nothing.
C9_OwnSliceOnly == [][OwnSliceOnly]_vars

\* The skills primary stored all three of its keys after basic info and the
\* work-experience fallback had filled theirs.
C9_Witness ==
    /\ pc = "extract_education"
    /\ attempts[Len(attempts)] = Attempt("extract_skills", "ok")
    /\ GetItem(output, "other_info") # GetItem(output_template, "other_info")
    /\ GetItem(output, "professional_development")
            # GetItem(output_template, "professional_development")
    /\ GetItem(output, "candidate_name") # EmptyStr
    /\ Len(GetItem(output, "work_output").v) > 0

(***************************************************************************)
(* C10                                                                     *)
(***************************************************************************)
\* Every section has finished, by its primary or by its fallback.
AllSectionsFinished ==
    \A k \in 1..Len(Sections) :
        \E i \in AttemptIndexes :
            SectionIndex(attempts[i].step) = k /\ attempts[i].result = "ok"

\* The text is the JSON of a record that has every key of the template.
CompleteRecord(text) ==
    LET r == JsonLoads(text, TRUE) IN
    /\ r.ok
    /\ r.val = output
    /\ Keys(output_template) \subseteq Keys(r.val)

\* C10: the output is written exactly when process_file returned normally: the
\* script reaches the write exactly when every section has finished, it then
\* writes one complete record to the file and the same record to standard
\* output, never more than once, and an aborted run has written nothing.
C10_WrittenIffReturned ==
    /\ pc \in {"returned", "written", "done"} <=> AllSectionsFinished
    /\ pc = "returned" => file = <<>> /\ stdout = <<>> /\ ENABLED write_output_file
    /\ pc = "written" => Len(file) = 1 /\ stdout = <<>> /\ ENABLED print_output
    /\ pc = "done" => Len(file) = 1 /\ stdout = file
    /\ \A i \in 1..Len(file) : CompleteRecord(file[i])
    /\ pc \notin {"written", "done"} => file = <<>> /\ stdout = <<>>
    /\ pc = "aborted" => raised \in ExceptionKinds /\ ~AllSectionsFinished

\* A finished run in which skills came from the fallback.
C10_Witness ==
    /\ pc = "done"
    /\ Len(file) = 1
    /\ GetItem(output, "skills").t = "str"


(***************************************************************************)
(* C11                                                                     *)
(***************************************************************************)
SupportedExtensions == { PdfExt, DocxExt, DocExt }

\* The extension the file is judged by: the one given, else the path's.
JudgedExtension ==
    IF loading.extension # <<>> THEN loading.extension
    ELSE IF \E i \in 2..Len(loading.file) : loading.file[i] = Dot
         THEN LET last == CHOOSE i \in 2..Len(loading.file) :
                              /\ loading.file[i] = Dot
                              /\ \A j \in (i + 1)..Len(loading.file) : loading.file[j] # Dot
              IN [k \in 1..(Len(loading.file) - last + 1) |-> loading.file[last + k - 1]]
         ELSE <<>>

NothingRan == calls = <<>> /\ attempts = <<>> /\ file = <<>> /\ stdout = <<>>

ExitsAtOnce ==
    pc = "main" /\ JudgedExtension \notin SupportedExtensions
        => /\ pc' = "exited"
           /\ ExitStatus' # 0
           /\ NothingRan'

StaysExited == pc = "exited" => UNCHANGED vars

\* C11: a file whose given or derived extension is none of .pdf, .docx and
\* .doc ends the process with a non-zero status in the constructor; no model
\* call was issued, no extraction method was called and nothing was written,
\* and nothing runs afterwards.
C11_UnsupportedExits ==
    /\ [](pc = "exited" => NothingRan /\ ExitStatus # 0)
    /\ [][ExitsAtOnce /\ StaysExited]_vars

C11_Witness ==
    /\ pc = "exited"
    /\ loading.file = <<"cv", Dot, "pdf">>
    /\ loading.extension = <<Dot, "rtf">>


(***************************************************************************)
(* C12                                                                     *)
(***************************************************************************)
\* The atoms of the resume text that are in S, in text order, as a list of strings.
FoundIn(text, S) ==
    LET at == { i \in 1..Len(text) : text[i] \in S }
        nth(n) == CHOOSE i \in at : Cardinality({ j \in at : j < i }) = n - 1
    IN List([n \in 1..Cardinality(at) |-> Str(<<text[nth(n)]>>)])

BasicInfoCompleted == Len(attempts) >= 1 /\ attempts[1].result = "ok"

ContactField(k) == GetItem(GetItem(output, "contact_info"), k)

\* C12: once extract_basic_info has returned, contact_info.email_address and
\* contact_info.personal_urls are the regex results on the resume text, the
\* same for every answer of the model, with or without the expected keys and
\* with keys of these very names.
C12_RegexFieldsFromResume ==
    BasicInfoCompleted =>
        /\ ContactField("email_address") = FoundIn(resume, EmailAtoms)
        /\ ContactField("personal_urls") = FoundIn(resume, UrlAtoms)

C12_Witness ==
    /\ BasicInfoCompleted
    /\ Len(attempts) = 1
    /\ HasKey(JsonLoads(reply.text, TRUE).val, "email_address")
    /\ ContactField("email_address") = List(<<Str(<<"jd@x.org">>)>>)

(***************************************************************************)
(* C13                                                                     *)
(***************************************************************************)
OptionalKeys == {"location", "phone"}

PrimaryKeys == {"name", "job_title", "bio"}

\* C13: when the basic-info answer is a JSON object, location and phone are
\* stored in contact_info whenever they are present, whichever of name,
\* job_title and bio is missing, and the step returns normally.
C13_OptionalKeysMerged ==
    BasicAnswered =>
        /\ attempts[1].result = "ok"
        /\ pc = "extract_work_experience"
        /\ raised = ""
        /\ \A k \in OptionalKeys :
             LET o == JsonLoads(reply.text, TRUE).val IN
             HasKey(o, k) => BasicField(output, k) = GetItem(o, k)

C13_Witness ==
    /\ BasicAnswered
    /\ LET o == JsonLoads(reply.text, TRUE).val IN
       /\ ~HasKey(o, "name")
       /\ HasKey(o, "bio")
       /\ HasKey(o, "location")
       /\ HasKey(o, "phone")
    /\ BasicField(output, "location") = Str(<<"Paris">>)
    /\ BasicField(output, "phone") = Str(<<"555">>)


(***************************************************************************)
(* C14                                                                     *)
(***************************************************************************)
TextSections == {"skills", "education"}

\* The section's primary attempt timed out and the fallback that followed returned.
FellBackAt(i, s) ==
    /\ i < Len(attempts)
    /\ PrimaryTimedOut(i, s)
    /\ attempts[i + 1] = Attempt(FallbackProcedureOf[s], "ok")

\* The record written with json.dumps and read back with json.loads.
RoundTrip == JsonLoads(Dumps(output), TRUE)

\* C14: after the skills (education) primary attempt timed out and its
\* fallback returned, the skills (education) field is one string, equal to the
\* text the fallback call returned, where the template holds a list; writing
\* the record as JSON and parsing it gives back the same string.
C14_FallbackTextKept ==
    \A s \in TextSections : \A i \in AttemptIndexes :
        FellBackAt(i, s) =>
            /\ GetItem(output, s).t = "str"
            /\ GetItem(output_template, s).t = "list"
            /\ GetItem(output, s).v \in FreeTexts
            /\ i + 1 = Len(attempts) => GetItem(output, s) = Str(reply.text)
            /\ RoundTrip.ok
            /\ GetItem(RoundTrip.val, s) = GetItem(output, s)

C14_Witness ==
    /\ \E i \in AttemptIndexes : FellBackAt(i, "education")
    /\ \E i \in AttemptIndexes : FellBackAt(i, "skills")
    /\ GetItem(output, "skills") = Str(<<"MIT", "\n", "\"", "BSc", "\"">>)
    /\ GetItem(output, "education") = Str(<<"Python", ",", " ", "SQL">>)
    /\ pc = "done"
    /\ JsonLoads(file[1], TRUE).val = output


(***************************************************************************)
(* C15                                                                     *)
(***************************************************************************)
\* The positions of the commas of a line, and the n-th of them (one past the
\* end of the line when there are fewer).
CommasOf(line) == { i \in 1..Len(line) : line[i] = "," }

NthComma(line, n) ==
    IF Cardinality(CommasOf(line)) < n THEN Len(line) + 1
    ELSE CHOOSE i \in CommasOf(line) : Cardinality({ j \in CommasOf(line) : j < i }) = n - 1

\* s without the whitespace at its end.
TrimRight(s) ==
    LET inked == { i \in 1..Len(s) : s[i] \notin Whitespace } IN
    IF inked = {} THEN <<>>
    ELSE [i \in 1..(CHOOSE i \in inked : \A j \in inked : j <= i) |-> s[i]]

\* The (company, role) pair of a line: its first two comma-separated fields,
\* the role empty when there is no second field.
PairOf(line) ==
    [company |-> TrimRight([i \in 1..(NthComma(line, 1) - 1) |-> line[i]]),
     role |-> IF CommasOf(line) = {} THEN <<>>
              ELSE TrimRight([i \in 1..(NthComma(line, 2) - NthComma(line, 1) - 1) |->
                                  line[NthComma(line, 1) + i]])]

WorkList == GetItem(output, "work_output").v

\* The n-th per-company call of the history.
NthCompanyCall(n) ==
    calls[CHOOSE i \in CompanyCalls : Cardinality({ j \in CompanyCalls : j < i }) = n - 1]

\* The indexes of the valid lines among the first k lines, and the n-th of them.
ValidUpTo(k) == { i \in 1..k : ValidLine(lines[i]) }

NthValid(k, n) ==
    CHOOSE i \in ValidUpTo(k) : Cardinality({ j \in ValidUpTo(k) : j < i }) = n - 1

FallbackWorkRunning ==
    /\ attempts # <<>>
    /\ attempts[Len(attempts)].step = "fallback_extract_work_experience"
    /\ attempts[Len(attempts)].result \in {"running", "ok"}

\* While the fallback runs and once it has returned, the list holds one entry
\* per per-company call, in call order, each the parsed answer to its call;
\* while the loop runs these are the pairs of the valid lines passed so far.
WorkListFollowsLines ==
    /\ pc = "fallback_work_loop" /\ idx = 1 =>
            WorkList = GetItem(output_template, "work_output").v /\ WorkList = <<>>
    /\ FallbackWorkRunning =>
         /\ Len(WorkList) = Cardinality(CompanyCalls)
         /\ \A n \in 1..Len(WorkList) :
              /\ GetItem(WorkList[n], "company") = Str(NthCompanyCall(n).company)
              /\ GetItem(WorkList[n], "role") = Str(NthCompanyCall(n).role)
    /\ pc = "fallback_work_loop" =>
         /\ Len(WorkList) = Cardinality(ValidUpTo(idx - 1))
         /\ \A n \in 1..Len(WorkList) :
              /\ NthCompanyCall(n).company = PairOf(lines[NthValid(idx - 1, n)]).company
              /\ NthCompanyCall(n).role = PairOf(lines[NthValid(idx - 1, n)]).role

\* One iteration on a valid line queries the line's pair and, when the answer
\* parses, appends it; an iteration on any other line leaves the list alone.
WorkLoopStep ==
    pc = "fallback_work_loop" =>
        IF ValidLine(lines[idx])
        THEN /\ calls'[Len(calls')].company = PairOf(lines[idx]).company
             /\ calls'[Len(calls')].role = PairOf(lines[idx]).role
             /\ CommasOf(lines[idx]) = {} => calls'[Len(calls')].role = <<>>
             /\ pc' # "aborted" =>
                    /\ JsonLoads(reply'.text, FALSE).ok
                    /\ output' = SetItem(output, "work_output",
                            List(Append(WorkList, JsonLoads(reply'.text, FALSE).val)))
        ELSE output' = output

\* C15: the work-experience fallback starts from the template's empty list and
\* appends one parsed entry per surviving (company, role) pair in the order of
\* the enumerated lines, so that when it returns the list is exactly these
\* entries; a surviving line without a second field is queried with the empty
\* role.
C15_WorkListFromLines ==
    /\ []WorkListFollowsLines
    /\ [][WorkLoopStep]_vars

\* The fallback returned after two valid lines, the first without a role.
C15_Witness ==
    /\ attempts # <<>>
    /\ attempts[Len(attempts)] = Attempt("fallback_extract_work_experience", "ok")
    /\ Len(WorkList) = 2
    /\ GetItem(WorkList[1], "role") = Str(<<>>)
    /\ GetItem(WorkList[2], "role") = Str(<<"Dev">>)
    /\ GetItem(WorkList[2], "company") = Str(<<"Acme">>)


(***************************************************************************)
(* C16                                                                     *)
(***************************************************************************)
\* This step is a primary attempt that ends with an exception.
PrimaryRaises ==
    /\ Len(attempts') = Len(attempts) + 1
    /\ IsPrimary(attempts'[Len(attempts')].step)
    /\ attempts'[Len(attempts')].result \in ExceptionKinds

SectionsWithFallback == {"work experience", "skills", "education"}

\* The fields of the section whose fallback is about to run hold their
\* template defaults.
FallbackStartsFromDefaults ==
    \A s \in SectionsWithFallback :
        pc = FallbackProcedureOf[s] =>
            \A key \in OwnedKeys(SectionIndex(PrimaryOf[s])) :
                /\ HasKey(output, key)
                /\ GetItem(output, key) = GetItem(output_template, key)

\* C16: a primary attempt that raises, by a timeout, a parse failure, a
\* missing required key or any other error, leaves the whole record as it was
\* before the attempt; hence every fallback starts with its section's fields
\* at their template defaults.
C16_FailedPrimaryWritesNothing ==
    /\ []FallbackStartsFromDefaults
    /\ [][PrimaryRaises => output' = output]_vars

\* extract_skills raised KeyError on an answer that has 'other' but no
\* 'skills', and other_info is still the template's.
C16_Witness ==
    /\ attempts # <<>>
    /\ attempts[Len(attempts)] = Attempt("extract_skills", "KeyError")
    /\ HasKey(JsonLoads(reply.text, TRUE).val, "other")
    /\ GetItem(output, "other_info") = GetItem(output_template, "other_info")
    /\ GetItem(output, "candidate_name") # GetItem(output_template, "candidate_name")


(***************************************************************************)
(* C17                                                                     *)
(***************************************************************************)
\* process_file has returned, or an exception has left it.
ProcessFileEnded == pc \in {"returned", "written", "done", "aborted"}

PrimaryCalls == { i \in 1..Len(calls) : IsPrimary(calls[i].by) }

\* The one call each fallback method issues itself.
FallbackCalls == { i \in 1..Len(calls) : IsFallback(calls[i].by) } \ CompanyCalls

CallBounds ==
    /\ Cardinality(PrimaryCalls) <= 4
    /\ Cardinality(FallbackCalls) <= 3
    /\ Cardinality(CompanyCalls) <= MaxEnumLines
    /\ pc = "fallback_work_loop" => Cardinality(CompanyCalls) <= idx - 1 /\ idx <= Len(lines)
    /\ Len(calls) = Cardinality(PrimaryCalls \cup FallbackCalls \cup CompanyCalls)

\* C17: with every model call returning or raising and an enumeration answer
\* of finitely many lines, process_file always ends, by returning or by an
\* exception, having issued at most 4 primary calls, 3 fallback calls and one
\* per-company call per enumerated line.
C17_Terminates ==
    /\ <>ProcessFileEnded
    /\ []CallBounds

\* A run that ended after all seven methods' calls and one per-company call
\* for each of the enumerated lines.
C17_Witness ==
    /\ ProcessFileEnded
    /\ Cardinality(PrimaryCalls) = 4
    /\ Cardinality(FallbackCalls) = 3
    /\ Cardinality(CompanyCalls) = MaxEnumLines


(***************************************************************************)
(* C18                                                                     *)
(***************************************************************************)
\* A timeout has reached the method that made the call.
TimeoutRaised == pc = "client_raised" /\ raised = "APITimeoutError"

AdHocCall == TheCall.fn = "query_model"

ChainCall == TheCall.fn = "extract_pydantic"

HasInk(doc) ==
    \E k \in 1..Len(doc.parts) : \E i \in 1..Len(doc.parts[k]) :
        doc.parts[k][i] \notin Whitespace

\* The pages as one text, a line break between two pages.
RECURSIVE PagesText(_)
PagesText(pages) ==
    IF pages = <<>> THEN <<>>
    ELSE IF Len(pages) = 1 THEN pages[1]
    ELSE pages[1] \o <<"\n">> \o PagesText(Tail(pages))

\* The end of the line of t that starts at `start`: the next line break, or
\* one past the end of t.
LineEnd(t, start) ==
    IF \E i \in start..Len(t) : t[i] = "\n"
    THEN CHOOSE i \in start..Len(t) : t[i] = "\n" /\ \A j \in start..(i - 1) : t[j] # "\n"
    ELSE Len(t) + 1

RECURSIVE KeptLines(_, _)
\* The lines of t from position `start` on that are not blank, each without
\* the whitespace at its end and followed by one line break.
KeptLines(t, start) ==
    IF start > Len(t) THEN <<>>
    ELSE LET line == TrimRight([i \in 1..(LineEnd(t, start) - start) |-> t[start + i - 1]])
         IN (IF line = <<>> THEN <<>> ELSE line \o <<"\n">>)
            \o KeptLines(t, LineEnd(t, start) + 1)

\* No blank line: the text does not start with a line break and has no two
\* in a row; unless empty it ends with one.
SingleNewlines(t) ==
    /\ t # <<>> => t[1] # "\n" /\ t[Len(t)] = "\n"
    /\ \A i \in 1..(Len(t) - 1) : ~(t[i] = "\n" /\ t[i + 1] = "\n")
    /\ \A i \in 2..Len(t) : t[i] = "\n" => t[i - 1] \notin Whitespace

LoadsDocument ==
    pc = "main" =>
        /\ pc' = "extract_basic_info"
        /\ HasInk(loading.doc) => resume' # <<>>
        /\ loading.doc.kind = "pdf" =>
              /\ resume' = KeptLines(PagesText(loading.doc.parts), 1)
              /\ SingleNewlines(resume')
        /\ loading.doc.kind = "docx" =>
              /\ Len(loading.doc.parts) > 0 => resume' # <<>>
              /\ Len(SelectSeq(resume', LAMBDA a : a = "\n")) = Len(loading.doc.parts)

====
